---- MODULE Spec2Model ----
(***************************************************************************)
(* Model of camunda_connector_rs: the code generated by the attribute      *)
(* macro camunda_connector (typed request structs, exec_raw, the inventory *)
(* registration) and by connector_main (OpPeek, build_table, dispatch with *)
(* its OnceLock), together with the example connectors add and sub.        *)
(*                                                                         *)
(* A request body is either bytes that are not JSON (BadBytes) or the JSON *)
(* document the bytes spell, written as a tagged tuple:                    *)
(*   <<"num", n>>  <<"str", s>>  <<"obj", <<<<key, value>>, ...>>>>        *)
(*   <<"arr", <<value, ...>>>>                                             *)
(* An object keeps its members in order and may repeat a key, as the bytes *)
(* may.  Strings built with format! are sequences of their parts.          *)
(***************************************************************************)
EXTENDS Integers, Sequences, FiniteSets, TLC

\* ---------------------------------------------------------------- bounds
WordBits == 3       \* bits of the model's u64 (the code's are 64)
NumRequests == 2    \* requests served in one run of the process
MaxRecipes == 2     \* connectors linked into the process

Modulus == 2 ^ WordBits
MaxU64 == Modulus - 1

\* ------------------------------------------------------------------ JSON
Num(n) == <<"num", n>>
Str(s) == <<"str", s>>
Obj(kv) == <<"obj", kv>>
Arr(el) == <<"arr", el>>
BadBytes == <<"bad">>
Tag(v) == v[1]
Val(v) == v[2]

Ok(v) == <<"Ok", v>>
Err(e) == <<"Err", e>>
IsOk(r) == r[1] = "Ok"
IsErr(r) == r[1] = "Err"

\* the text of a serde_json error, whatever it says
SerdeError == "<serde_json error>"

\* serde's derived struct visitor as serde_json drives it: an object must
\* hold every field exactly once (unknown keys are skipped, a repeated
\* field is an error), an array must hold exactly the fields, in order.
\* Gives the fields' raw values in declaration order.
Entries(v, k) == SelectSeq(Val(v), LAMBDA e : e[1] = k)
StructFields(v, fields) ==
    IF Tag(v) = "obj"
    THEN IF \A i \in 1..Len(fields) : Len(Entries(v, fields[i])) = 1
         THEN Ok([i \in 1..Len(fields) |-> Entries(v, fields[i])[1][2]])
         ELSE Err(SerdeError)
    ELSE IF Tag(v) = "arr"
    THEN IF Len(Val(v)) = Len(fields) THEN Ok(Val(v)) ELSE Err(SerdeError)
    ELSE Err(SerdeError)

DecodeU64(v) ==
    IF Tag(v) = "num" /\ Val(v) >= 0 /\ Val(v) <= MaxU64
    THEN Ok(Val(v)) ELSE Err(SerdeError)
DecodeString(v) ==
    IF Tag(v) = "str" THEN Ok(Val(v)) ELSE Err(SerdeError)

\* struct OpPeekParams { operation: String }
DecodeOpPeekParams(v) ==
    LET f == StructFields(v, <<"operation">>) IN
    IF IsErr(f) THEN f ELSE
    LET op == DecodeString(f[2][1]) IN
    IF IsErr(op) THEN op ELSE Ok([operation |-> op[2]])

\* struct OpPeek { params: OpPeekParams }
DecodeOpPeek(v) ==
    LET f == StructFields(v, <<"params">>) IN
    IF IsErr(f) THEN f ELSE
    LET p == DecodeOpPeekParams(f[2][1]) IN
    IF IsErr(p) THEN p ELSE Ok([params |-> p[2]])

\* a peek that falls back to the operation add where the envelope fails
PeekFromSlice_lenient(bytes) ==
    IF bytes = BadBytes \/ IsErr(DecodeOpPeek(bytes))
    THEN Ok([params |-> [operation |-> "add"]])
    ELSE DecodeOpPeek(bytes)

\* serde_json::from_slice::<OpPeek>(&body)
PeekFromSlice(bytes) ==
    IF bytes = BadBytes THEN Err(SerdeError) ELSE DecodeOpPeek(bytes)

\* struct MyInput { a: u64, b: u64 }
DecodeMyInput(v) ==
    LET f == StructFields(v, <<"a", "b">>) IN
    IF IsErr(f) THEN f ELSE
    LET a == DecodeU64(f[2][1])
        b == DecodeU64(f[2][2]) IN
    IF IsErr(a) THEN a ELSE IF IsErr(b) THEN b
    ELSE Ok([a |-> a[2], b |-> b[2]])

\* Params with the input flattened into it (#[serde(flatten)] on input)
DecodeParams_flattened(v) ==
    LET f == StructFields(v, <<"operation", "a", "b">>) IN
    IF IsErr(f) THEN f ELSE
    LET op == DecodeString(f[2][1])
        a == DecodeU64(f[2][2])
        b == DecodeU64(f[2][3]) IN
    IF IsErr(op) THEN op ELSE IF IsErr(a) THEN a ELSE IF IsErr(b) THEN b
    ELSE Ok([operation |-> op[2], input |-> [a |-> a[2], b |-> b[2]]])

\* generated struct Params<Name><Op> { operation: String, input: T }
DecodeParams(v) ==
    LET f == StructFields(v, <<"operation", "input">>) IN
    IF IsErr(f) THEN f ELSE
    LET op == DecodeString(f[2][1])
        inp == DecodeMyInput(f[2][2]) IN
    IF IsErr(op) THEN op ELSE IF IsErr(inp) THEN inp
    ELSE Ok([operation |-> op[2], input |-> inp[2]])

\* generated struct Request<Name><Op> { id: u64, params: Params<Name><Op> }
DecodeRequest(v) ==
    LET f == StructFields(v, <<"id", "params">>) IN
    IF IsErr(f) THEN f ELSE
    LET id == DecodeU64(f[2][1])
        p == DecodeParams(f[2][2]) IN
    IF IsErr(id) THEN id ELSE IF IsErr(p) THEN p
    ELSE Ok([id |-> id[2], params |-> p[2]])

\* serde_json::from_slice::<Request..>(&bytes)
RequestFromSlice(bytes) ==
    IF bytes = BadBytes THEN Err(SerdeError) ELSE DecodeRequest(bytes)

\* an output serialized with its number as a string
ToValue_quoted(out) == Obj(<< <<"result", Str("n")>> >>)

\* serde_json::to_value(MyOutput { result })
ToValue(out) == Obj(<< <<"result", Num(out.result)>> >>)

Range(f) == {f[i] : i \in DOMAIN f}

\* ------------------------------------------------------------ connectors
\* A handler's outcome: Ok(output), Err(message), or a panic that unwinds
\* out of the handler.
Panic == <<"Panic">>
IsPanic(r) == r[1] = "Panic"

\* examples/math-connector: result: params.a + params.b.  u64 addition
\* panics on overflow when the build checks overflow (debug profile) and
\* wraps when it does not (release profile).
add(id, params, checks) ==
    IF params.a + params.b > MaxU64
    THEN IF checks THEN Panic
         ELSE Ok([result |-> (params.a + params.b) % Modulus])
    ELSE Ok([result |-> params.a + params.b])

\* examples/math-connector: result: params.a - params.b, as above.
sub(id, params, checks) ==
    IF params.a < params.b
    THEN IF checks THEN Panic
         ELSE Ok([result |-> (params.a - params.b + Modulus) % Modulus])
    ELSE Ok([result |-> params.a - params.b])

\* a connector whose handler returns Err("boom")
boom(id, params, checks) == Err("boom")

\* #fn_name(req.id, req.params.input).await
CallHandler(call, checks) ==
    CASE call.fn = "add" -> add(call.id, call.input, checks)
      [] call.fn = "sub" -> sub(call.id, call.input, checks)
      [] call.fn = "boom" -> boom(call.id, call.input, checks)

\* What inventory::submit! records for #[camunda_connector(name, operation)]
\* on fn handler; exec_raw is the generated adapter of that very use of the
\* macro, so the record also stands for the exec_raw function pointer.
Recipe(name, operation, handler) ==
    [name |-> name, operation |-> operation, handler |-> handler]

\* exec_raw calling the handler whatever operation the body names
ExecRawDecode_unchecked(recipe, bytes) ==
    LET req == RequestFromSlice(bytes) IN
    IF IsErr(req)
    THEN Err(<<"Bad JSON for '", recipe.name, "'/'", recipe.operation,
               "': ", req[2]>>)
    ELSE <<"Call", [fn |-> recipe.handler, id |-> req[2].id,
                    input |-> req[2].params.input]>>

\* exec_raw up to the call of the handler: the typed decode and the
\* operation check.  Gives Err(message) or the call to make.  In the
\* messages ' stands for the backquote the code writes.
ExecRawDecode(recipe, bytes) ==
    LET req == RequestFromSlice(bytes) IN
    IF IsErr(req)
    THEN Err(<<"Bad JSON for '", recipe.name, "'/'", recipe.operation,
               "': ", req[2]>>)
    ELSE IF req[2].params.operation # recipe.operation
    THEN Err(<<"Operation mismatch: expected '", recipe.operation,
               "', got '", req[2].params.operation, "'">>)
    ELSE <<"Call", [fn |-> recipe.handler, id |-> req[2].id,
                    input |-> req[2].params.input]>>

\* exec_raw hiding the handler's error behind a fixed message
ExecRawResult_hidden(hres) ==
    IF IsOk(hres) THEN Ok(ToValue(hres[2])) ELSE Err(<<"handler failed">>)

\* exec_raw after the handler returned: the match on its result
ExecRawResult(hres) ==
    IF IsOk(hres) THEN Ok(ToValue(hres[2])) ELSE Err(<<hres[2]>>)

\* -------------------------------------------------------------- registry
\* The HashMap of build_table, as the set of its <<key, value>> entries.
EmptyTable == {}
\* a key made of the name alone
RecipeKey_nameOnly(r) == <<r.name, r.name>>
RecipeKey(r) == <<r.name, r.operation>>
TableInsert(table, key, value) ==
    {e \in table : e[1] # key} \cup {<<key, value>>}
\* a lookup that matches the connector's name alone
TableGet_byName(table, key) ==
    IF \E e \in table : e[1][1] = key[1]
    THEN <<"Some", (CHOOSE e \in table : e[1][1] = key[1])[2]>>
    ELSE <<"None">>
\* a lookup that matches the operation alone
TableGet_byOperation(table, key) ==
    IF \E e \in table : e[1][2] = key[2]
    THEN <<"Some", (CHOOSE e \in table : e[1][2] = key[2])[2]>>
    ELSE <<"None">>
TableGet(table, key) ==
    IF \E e \in table : e[1] = key
    THEN <<"Some", (CHOOSE e \in table : e[1] = key)[2]>>
    ELSE <<"None">>
IsSome(o) == o[1] = "Some"

\* build_table run to its end over an enumeration of the recipes
RECURSIVE BuildFrom(_, _, _)
BuildFrom(recipes, i, table) ==
    IF i > Len(recipes) THEN table
    ELSE BuildFrom(recipes, i + 1,
                   TableInsert(table, RecipeKey(recipes[i]), recipes[i]))

\* ------------------------------------------------------------- responses
Response(status, body) == [status |-> status, body |-> body]
NoResponse == Response(0, <<>>)
PeekFailed == Response(400, <<"Invalid JSON envelope">>)
Unsupported(op) == Response(400, <<"Unsupported operation '", op, "'">>)
\* an exec error answered as a bad request
ExecResponse_badRequest(res) ==
    IF IsOk(res) THEN Response(200, res[2]) ELSE Response(400, res[2])
\* the match on exec(body).await
ExecResponse(res) ==
    IF IsOk(res) THEN Response(200, res[2]) ELSE Response(500, res[2])

\* ---------------------------------------------------------------- inputs
Names == {"math", "text"}
Ops == {"add", "sub", "mul"}
\* operand pairs: the scenario's 3+4, a < b, and a + b past the largest u64
Operands == {<<3, 4>>, <<0, 1>>, <<MaxU64, 1>>}

Envelope(id, params) == Obj(<< <<"id", id>>, <<"params", params>> >>)
AB(a, b) == Obj(<< <<"a", a>>, <<"b", b>> >>)
\* the operation's fields directly inside params, next to operation
FlatParams(op, a, b) ==
    Obj(<< <<"operation", Str(op)>>, <<"a", Num(a)>>, <<"b", Num(b)>> >>)
\* the operation's fields inside params.input
InputParams(op, ab) == Obj(<< <<"operation", Str(op)>>, <<"input", ab>> >>)
Flat(op, a, b) == Envelope(Num(1), FlatParams(op, a, b))
Nested(op, a, b) == Envelope(Num(1), InputParams(op, AB(Num(a), Num(b))))

\* bodies that are JSON but no envelope, or not JSON at all
Malformed ==
    { BadBytes, Num(1), Arr(<<>>), Obj(<<>>), Obj(<< <<"id", Num(1)>> >>),
      Envelope(Num(1), Obj(<<>>)), Envelope(Num(1), Str("add")),
      Envelope(Num(1), Obj(<< <<"operation", Num(5)>> >>)),
      Obj(<< <<"id", Num(1)>>,
             <<"params", InputParams("add", AB(Num(3), Num(4)))>>,
             <<"params", InputParams("add", AB(Num(3), Num(4)))>> >>),
      Arr(<<Num(1), Arr(<<Str("add"), Arr(<<Num(3), Num(4)>>)>>)>>),
      Envelope(Num(1), Arr(<<Str("add"), Arr(<<Num(3), Num(4)>>)>>)) }
\* envelopes with the routing field that miss the typed shape of the example
BadShape(op) ==
    { Obj(<< <<"params", InputParams(op, AB(Num(3), Num(4)))>> >>),
      Envelope(Str("1"), InputParams(op, AB(Num(3), Num(4)))),
      Envelope(Num(-1), InputParams(op, AB(Num(3), Num(4)))),
      Envelope(Num(Modulus), InputParams(op, AB(Num(3), Num(4)))),
      Envelope(Num(1), InputParams(op, AB(Num(3), Str("4")))),
      Envelope(Num(1), InputParams(op, Obj(<< <<"a", Num(3)>> >>))),
      Envelope(Num(1), Obj(<< <<"operation", Str(op)>> >>)),
      Flat(op, 3, 4) }
\* arrays in the place of the structs
Positional(op) ==
    { Arr(<< Obj(<< <<"operation", Str(op)>> >>) >>),
      Arr(<< Arr(<<Str(op)>>) >>),
      Envelope(Num(1), Arr(<<Str(op)>>)),
      Envelope(Num(1), InputParams(op, Arr(<<Num(3), Num(4)>>))) }
Bodies ==
    Malformed
    \cup BadShape("add") \cup {Flat("mul", 3, 4)}
    \cup Positional("add") \cup {Arr(<< Arr(<<Str("sub")>>) >>)}
    \cup {Nested(op, ab[1], ab[2]) : op \in Ops, ab \in Operands}

\* One request of a run is arbitrary: any body on the path of the example
\* connectors, or a body on a path no connector registered.  The requests
\* racing with it are one that passes the peek (and underflows in sub) and
\* one that fails it.
OtherPath ==
    { BadBytes, Nested("add", 3, 4), Nested("mul", 3, 4), Flat("add", 3, 4),
      Arr(<< Obj(<< <<"operation", Str("add")>> >>) >>) }
Racing == { <<"math", Nested("sub", 0, 1)>>, <<"math", BadBytes>> }
Inputs(r) ==
    IF r = 1 THEN ({"math"} \X Bodies) \cup ({"text"} \X OtherPath)
    ELSE Racing

\* the connectors a process may link, in the order they register
Pool ==
    << Recipe("math", "add", "add"), Recipe("math", "sub", "sub"),
       Recipe("math", "add", "boom") >>
Increasing(f) == \A i, j \in DOMAIN f : i < j => f[i] < f[j]
Injective(f) == \A i, j \in DOMAIN f : i # j => f[i] # f[j]
Registrations ==
    { [i \in DOMAIN f |-> Pool[f[i]]] :
        f \in { g \in UNION {[1..n -> 1..Len(Pool)] : n \in 0..MaxRecipes} :
                Increasing(g) } }
Enumerations(recipes) ==
    { [i \in DOMAIN f |-> recipes[f[i]]] :
        f \in { g \in [1..Len(recipes) -> 1..Len(recipes)] : Injective(g) } }

\* ----------------------------------------------------------------- state
VARIABLES
    registered,      \* the recipes submitted, in the order they registered
    inventory,       \* the same, in the order inventory::iter visits them
    overflowChecks,  \* whether the build panics on integer overflow
    once,            \* the static ONCE of dispatch
    building,        \* the running build_table: its loop index and its table
    builds,          \* how many times build_table was entered
    pc,              \* where each request is in dispatch
    req,             \* each request's path name and body
    peek,            \* peek.params.operation
    seen,            \* the table get_or_init gave the request
    exec,            \* the exec_raw the request called
    hcall,           \* the call of the typed handler
    hret,            \* what the typed handler returned
    resp,            \* the response sent
    log              \* the steps the request took, in order

vars == << registered, inventory, overflowChecks, once, building, builds,
           pc, req, peek, seen, exec, hcall, hret, resp, log >>

Requests == 1..NumRequests
NoRecipe == Recipe("", "", "")
NoCall == [fn |-> "", id |-> 0, input |-> [a |-> 0, b |-> 0]]
NoReturn == <<"None">>
NotBuilding == [by |-> 0, i |-> 0, table |-> EmptyTable]

Init ==
    /\ registered \in Registrations
    /\ inventory \in Enumerations(registered)
    /\ overflowChecks \in BOOLEAN
    /\ once = [state |-> "uninit", value |-> EmptyTable]
    /\ building = NotBuilding
    /\ builds = 0
    /\ pc = [r \in Requests |-> "idle"]
    /\ req = [r \in Requests |-> [name |-> "", body |-> BadBytes]]
    /\ peek = [r \in Requests |-> ""]
    /\ seen = [r \in Requests |-> EmptyTable]
    /\ exec = [r \in Requests |-> NoRecipe]
    /\ hcall = [r \in Requests |-> NoCall]
    /\ hret = [r \in Requests |-> NoReturn]
    /\ resp = [r \in Requests |-> NoResponse]
    /\ log = [r \in Requests |-> <<>>]

\* --------------------------------------------------------------- actions
\* dispatch calling exec_raw again after a first failed call
Step_retry(r, from, to, event) ==
    /\ pc[r] = from
    /\ pc' = [pc EXCEPT ![r] =
                IF event = "exec_raw" /\ to = "responded"
                   /\ "exec_raw" \notin {log[r][i] : i \in DOMAIN log[r]}
                THEN from ELSE to]
    /\ log' = [log EXCEPT ![r] = Append(@, event)]

\* a request moves from one place in dispatch to the next
Step(r, from, to, event) ==
    /\ pc[r] = from
    /\ pc' = [pc EXCEPT ![r] = to]
    /\ log' = [log EXCEPT ![r] = Append(@, event)]

\* a dispatch that takes the table before it peeks: a request with a
\* malformed envelope initialises the cell
Arrive_tableFirst(r) ==
    /\ pc[r] = "idle"
    /\ \E in \in Inputs(r) :
        LET pk == PeekFromSlice(in[2]) IN
        /\ req' = [req EXCEPT ![r] = [name |-> in[1], body |-> in[2]]]
        /\ IF IsErr(pk)
           THEN /\ Step(r, "idle", "responded", "peek")
                /\ resp' = [resp EXCEPT ![r] = PeekFailed]
                /\ IF once.state = "uninit"
                   THEN /\ once' = [state |-> "complete",
                                    value |-> BuildFrom(inventory, 1,
                                                        EmptyTable)]
                        /\ builds' = builds + 1
                   ELSE UNCHANGED << once, builds >>
                /\ UNCHANGED peek
           ELSE /\ Step(r, "idle", "once", "peek")
                /\ peek' = [peek EXCEPT ![r] = pk[2].params.operation]
                /\ UNCHANGED << resp, once, builds >>
        /\ UNCHANGED << registered, inventory, overflowChecks, building,
                        seen, exec, hcall, hret >>

\* dispatch, first statement: the request arrives and its body is peeked;
\* a failed peek is answered at once
Arrive(r) ==
    /\ pc[r] = "idle"
    /\ \E in \in Inputs(r) :
        LET pk == PeekFromSlice(in[2]) IN
        /\ req' = [req EXCEPT ![r] = [name |-> in[1], body |-> in[2]]]
        /\ IF IsErr(pk)
           THEN /\ Step(r, "idle", "responded", "peek")
                /\ resp' = [resp EXCEPT ![r] = PeekFailed]
                /\ UNCHANGED peek
           ELSE /\ Step(r, "idle", "once", "peek")
                /\ peek' = [peek EXCEPT ![r] = pk[2].params.operation]
                /\ UNCHANGED resp
        /\ UNCHANGED << registered, inventory, overflowChecks, once, building,
                        builds, seen, exec, hcall, hret >>

\* a cell that hands out its table as soon as an initialisation started
OnceReady_started(state) == state # "uninit"

\* OnceLock: a caller gets the value only once the initialisation completed
OnceReady(state) == state = "complete"
\* the table behind ONCE as a caller reads it
OnceValue(o, b) == IF o.state = "complete" THEN o.value ELSE b.table

\* a cell that runs the initialiser again for a caller that finds it set
OnceEmpty_again(state) == state \in {"uninit", "complete"}
\* OnceLock: the initialiser runs only for a caller that finds the cell empty
OnceEmpty(state) == state = "uninit"

\* ONCE.get_or_init(build_table) on the empty cell: this caller initialises
OnceBegin(r) ==
    /\ OnceEmpty(once.state)
    /\ Step(r, "once", "build", "build_table")
    /\ once' = [once EXCEPT !.state = "running"]
    /\ building' = [by |-> r, i |-> 1, table |-> EmptyTable]
    /\ builds' = builds + 1
    /\ UNCHANGED << registered, inventory, overflowChecks, req, peek, seen,
                    exec, hcall, hret, resp >>

\* build_table, one turn of the loop: table.insert(key, r.exec_raw)
BuildInsert(r) ==
    /\ pc[r] = "build"
    /\ building.by = r
    /\ building.i <= Len(inventory)
    /\ building' =
         [building EXCEPT
            !.table = TableInsert(@, RecipeKey(inventory[building.i]),
                                  inventory[building.i]),
            !.i = @ + 1]
    /\ UNCHANGED << registered, inventory, overflowChecks, once, builds, pc,
                    req, peek, seen, exec, hcall, hret, resp, log >>

\* build_table returns; the cell takes the table and the caller a reference
BuildReturn(r) ==
    /\ building.by = r
    /\ building.i > Len(inventory)
    /\ Step(r, "build", "table", "get_or_init")
    /\ once' = [state |-> "complete", value |-> building.table]
    /\ seen' = [seen EXCEPT ![r] = building.table]
    /\ building' = NotBuilding
    /\ UNCHANGED << registered, inventory, overflowChecks, builds, req, peek,
                    exec, hcall, hret, resp >>

\* ONCE.get_or_init(build_table) while another caller initialises: the
\* caller is parked until the initialisation completes
OnceWait(r) ==
    /\ once.state = "running"
    /\ pc[r] = "once"
    /\ pc' = [pc EXCEPT ![r] = "wait"]
    /\ UNCHANGED << registered, inventory, overflowChecks, once, building,
                    builds, req, peek, seen, exec, hcall, hret, resp, log >>

\* ONCE.get_or_init(build_table) on the initialised cell
OnceGet(r) ==
    /\ OnceReady(once.state)
    /\ pc[r] \in {"once", "wait"}
    /\ Step(r, pc[r], "table", "get_or_init")
    /\ seen' = [seen EXCEPT ![r] = OnceValue(once, building)]
    /\ UNCHANGED << registered, inventory, overflowChecks, once, building,
                    builds, req, peek, exec, hcall, hret, resp >>

\* table.get(&(name, peek.params.operation)).ok_or_else(..)?
Lookup(r) ==
    /\ pc[r] = "table"
    /\ LET found == TableGet(seen[r], <<req[r].name, peek[r]>>) IN
       /\ IF IsSome(found)
          THEN /\ Step(r, "table", "exec", "lookup")
               /\ exec' = [exec EXCEPT ![r] = found[2]]
               /\ UNCHANGED resp
          ELSE /\ Step(r, "table", "responded", "lookup")
               /\ resp' = [resp EXCEPT ![r] = Unsupported(peek[r])]
               /\ UNCHANGED exec
       /\ UNCHANGED << registered, inventory, overflowChecks, once, building,
                       builds, req, peek, seen, hcall, hret >>

\* exec(body): exec_raw decodes, checks the operation and calls the handler
ExecRaw(r) ==
    /\ pc[r] = "exec"
    /\ LET d == ExecRawDecode(exec[r], req[r].body) IN
       /\ IF IsErr(d)
          THEN /\ Step(r, "exec", "responded", "exec_raw")
               /\ resp' = [resp EXCEPT ![r] = ExecResponse(d)]
               /\ UNCHANGED hcall
          ELSE /\ Step(r, "exec", "handler", "exec_raw")
               /\ hcall' = [hcall EXCEPT ![r] = d[2]]
               /\ UNCHANGED resp
       /\ UNCHANGED << registered, inventory, overflowChecks, once, building,
                       builds, req, peek, seen, exec, hret >>

\* the handler's future completes; exec_raw maps its result and dispatch
\* answers.  A panic unwinds through exec_raw and dispatch: no answer.
HandlerReturn(r) ==
    /\ pc[r] = "handler"
    /\ LET h == CallHandler(hcall[r], overflowChecks) IN
       /\ hret' = [hret EXCEPT ![r] = h]
       /\ IF IsPanic(h)
          THEN /\ Step(r, "handler", "panicked", "handler")
               /\ UNCHANGED resp
          ELSE /\ Step(r, "handler", "responded", "handler")
               /\ resp' = [resp EXCEPT ![r] = ExecResponse(ExecRawResult(h))]
       /\ UNCHANGED << registered, inventory, overflowChecks, once, building,
                       builds, req, peek, seen, exec, hcall >>

Next ==
    \E r \in Requests :
        \/ Arrive(r)
        \/ OnceBegin(r)
        \/ BuildInsert(r)
        \/ BuildReturn(r)
        \/ OnceWait(r)
        \/ OnceGet(r)
        \/ Lookup(r)
        \/ ExecRaw(r)
        \/ HandlerReturn(r)

Spec == Init /\ [][Next]_vars

\* exec_raw is a public function of the connector's crate: a caller other
\* than dispatch hands any body to the adapter of any recipe, and maps the
\* result to a response as dispatch does.
DirectInputs(r) ==
    IF r = 1 THEN Range(Pool) \X Bodies
    ELSE {<<Pool[2], Nested("add", 3, 4)>>, <<Pool[2], Nested("sub", 3, 4)>>}

DirectCall(r) ==
    /\ pc[r] = "idle"
    /\ \E in \in DirectInputs(r) :
         /\ req' = [req EXCEPT ![r] = [name |-> in[1].name, body |-> in[2]]]
         /\ exec' = [exec EXCEPT ![r] = in[1]]
    /\ Step(r, "idle", "exec", "call")
    /\ UNCHANGED << registered, inventory, overflowChecks, once, building,
                    builds, peek, seen, hcall, hret, resp >>

DirectNext ==
    \E r \in Requests :
        \/ DirectCall(r)
        \/ ExecRaw(r)
        \/ HandlerReturn(r)

DirectSpec == Init /\ [][DirectNext]_vars

\* ---------------------------------------------------------------- claims
Finished(r) == pc[r] \in {"responded", "panicked"}
Contains(message, part) == \E i \in DOMAIN message : message[i] = part
Add == Pool[1]
\* ("math", "add") is registered, and only with the handler add
AddRegistered ==
    /\ Add \in Range(registered)
    /\ \A x \in Range(registered) :
         (x.name = "math" /\ x.operation = "add") => x = Add
\* (name, operation) is the key of some registered descriptor
KeyRegistered(name, operation) ==
    \E x \in Range(registered) : x.name = name /\ x.operation = operation
\* the body is a JSON object with a string at params.operation
HasOperationString(body) ==
    /\ Tag(body) = "obj"
    /\ \E i \in DOMAIN Val(body) :
         /\ Val(body)[i][1] = "params"
         /\ Tag(Val(body)[i][2]) = "obj"
         /\ \E j \in DOMAIN Val(Val(body)[i][2]) :
              /\ Val(Val(body)[i][2])[j][1] = "operation"
              /\ Tag(Val(Val(body)[i][2])[j][2]) = "str"

C2_MalformedIs400 ==
    \A r \in Requests :
        (/\ Finished(r)
         /\ \/ req[r].body = BadBytes
            \/ ~HasOperationString(req[r].body))
        => resp[r].status = 400

\* C3: a request whose envelope peeks to an operation op and whose (path
\* name, op) has no registered descriptor, also when op is registered under
\* another name, ends in Responded(400) with a message containing op, and
\* neither exec_raw nor a handler is invoked.
C3_UnregisteredIs400 ==
    \A r \in Requests :
        (/\ Finished(r)
         /\ IsOk(PeekFromSlice(req[r].body))
         /\ ~KeyRegistered(req[r].name,
                           PeekFromSlice(req[r].body)[2].params.operation))
        => /\ resp[r].status = 400
           /\ Contains(resp[r].body,
                       PeekFromSlice(req[r].body)[2].params.operation)
           /\ exec[r] = NoRecipe
           /\ hcall[r] = NoCall
C3_Witness ==
    \E r \in Requests :
        /\ pc[r] = "responded"
        /\ req[r] = [name |-> "text", body |-> Nested("add", 3, 4)]
        /\ KeyRegistered("math", "add")
        /\ resp[r].status = 400
        /\ Contains(resp[r].body, "add")

\* the response body decoded as MyOutput { result: u64 }
DecodeMyOutput(v) ==
    LET f == StructFields(v, <<"result">>) IN
    IF IsErr(f) THEN f ELSE
    LET n == DecodeU64(f[2][1]) IN
    IF IsErr(n) THEN n ELSE Ok([result |-> n[2]])

\* C4: a request whose handler returned Ok(out) ends in Responded(200) and
\* decoding the response body gives out again.
C4_OkIs200RoundTrip ==
    \A r \in Requests :
        (Finished(r) /\ IsOk(hret[r]))
        => /\ resp[r].status = 200
           /\ DecodeMyOutput(resp[r].body) = Ok(hret[r][2])
C4_Witness ==
    \E r \in Requests :
        /\ pc[r] = "responded"
        /\ hret[r] = Ok([result |-> 7])
        /\ resp[r].status = 200

\* C5: a request whose handler returned Err(e) ends in Responded(500) with
\* a body containing e, never in Responded(200) or Responded(400).
C5_ErrIs500 ==
    \A r \in Requests :
        (Finished(r) /\ IsErr(hret[r]))
        => /\ resp[r].status = 500
           /\ Contains(resp[r].body, hret[r][2])
C5_Witness ==
    \E r \in Requests :
        /\ pc[r] = "responded"
        /\ hret[r] = Err("boom")
        /\ resp[r].status = 500
        /\ Contains(resp[r].body, "boom")

\* the table get_or_init gave request r, once it has one
HasTable(r) == "get_or_init" \in Range(log[r])

\* C6: under every interleaving of requests that arrive before the table
\* exists, build_table is entered at most once, every request that got a
\* table got the one complete table that ONCE holds, built from every
\* registered descriptor, and no request naming a registered (name,
\* operation) is answered 400 "Unsupported operation".
C6_OneCompleteTable ==
    /\ builds <= 1
    /\ \A r \in Requests :
         HasTable(r) =>
            /\ builds = 1
            /\ once.state = "complete"
            /\ seen[r] = once.value
            /\ \A x \in Range(registered) :
                 \E e \in seen[r] :
                    e[1] = <<x.name, x.operation>> /\ e[2].handler # ""
    /\ \A r \in Requests :
         (pc[r] = "responded" /\ KeyRegistered(req[r].name, peek[r]))
         => resp[r] # Response(400, <<"Unsupported operation '", peek[r], "'">>)
\* a request that names a registered key waits for the table while another
\* request is in the middle of build_table
C6_Witness ==
    \E r, b \in Requests :
        /\ pc[b] = "build"
        /\ building.i > 1
        /\ building.i <= Len(inventory)
        /\ pc[r] = "wait"
        /\ KeyRegistered(req[r].name, peek[r])

\* the keys of the registered descriptors are pairwise distinct
DistinctKeys ==
    \A i, j \in DOMAIN registered :
        (/\ registered[i].name = registered[j].name
         /\ registered[i].operation = registered[j].operation) => i = j

\* C7: when the registered descriptors have pairwise distinct keys, then
\* for every order of enumeration the built table maps each registered key
\* to the exec_raw registered for it and has no entry for any other key.
C7_LookupAfterBuild ==
    (once.state = "complete" /\ DistinctKeys) =>
        \A n \in Names, o \in Ops :
            TableGet(once.value, <<n, o>>) =
                IF \E x \in Range(registered) : x.name = n /\ x.operation = o
                THEN <<"Some", CHOOSE x \in Range(registered) :
                                    x.name = n /\ x.operation = o>>
                ELSE <<"None">>
C7_Witness ==
    /\ once.state = "complete"
    /\ DistinctKeys
    /\ Len(registered) = 2
    /\ inventory # registered
    /\ TableGet(once.value, <<"math", "sub">>) = <<"Some", Pool[2]>>

\* C8, as the spec states it: the build does not fail, so for every key
\* the table holds the exec_raw of the last descriptor registered with
\* that key, whatever the order of enumeration.
C8_LastRegisteredWins ==
    once.state = "complete" =>
        \A i \in DOMAIN registered :
            (\A j \in DOMAIN registered :
                (/\ j > i
                 /\ registered[j].name = registered[i].name)
                => registered[j].operation # registered[i].operation)
            => TableGet(once.value,
                        <<registered[i].name, registered[i].operation>>)
               = <<"Some", registered[i]>>

\* C9, as the spec states it: whatever the handler does, exec_raw gives
\* dispatch Ok(value) or Err(message): nothing unwinds past it.
C9_NothingPastExecRaw ==
    \A r \in Requests :
        exec[r] # NoRecipe => /\ pc[r] # "panicked"
                              /\ ~IsPanic(hret[r])

\* C10: a request whose envelope peeks, whose (name, operation) is
\* registered, and whose body misses the typed request shape (id missing or
\* no u64, operation-specific fields missing or of the wrong type) ends in
\* Responded(500), not Responded(400), and the handler is not invoked.
C10_SchemaMismatchIs500 ==
    \A r \in Requests :
        (/\ Finished(r)
         /\ req[r].name = "math"
         /\ req[r].body \in BadShape("add")
         /\ KeyRegistered("math", "add"))
        => /\ resp[r].status = 500
           /\ hcall[r] = NoCall
           /\ hret[r] = NoReturn
C10_Witness ==
    \E r \in Requests :
        /\ pc[r] = "responded"
        /\ req[r].name = "math"
        /\ req[r].body = Envelope(Num(1), InputParams("add", AB(Num(3), Str("4"))))
        /\ KeyRegistered("math", "add")
        /\ exec[r] # NoRecipe
        /\ resp[r].status = 500

\* how often event occurs in a request's log
Count(events, event) == Cardinality({i \in DOMAIN events : events[i] = event})
Responded(r) == pc[r] = "responded" /\ resp[r].status \in {200, 400, 500}

\* the steps of dispatch in the order of the code; build_table is taken
\* by the one request that initialises ONCE
Path == <<"peek", "build_table", "get_or_init", "lookup", "exec_raw", "handler">>
PathSkipping == <<"peek", "get_or_init", "lookup", "exec_raw", "handler">>
IsPrefix(s, t) == Len(s) <= Len(t) /\ \A i \in DOMAIN s : s[i] = t[i]
\* where a request can be after the last step it took
PcAfter(events) ==
    IF events = <<>> THEN {"idle"}
    ELSE CASE events[Len(events)] = "peek" -> {"once", "wait", "responded"}
           [] events[Len(events)] = "build_table" -> {"build"}
           [] events[Len(events)] = "get_or_init" -> {"table"}
           [] events[Len(events)] = "lookup" -> {"exec", "responded"}
           [] events[Len(events)] = "exec_raw" -> {"handler", "responded"}
           [] events[Len(events)] = "handler" -> {"responded", "panicked"}
\* a request on its way can take its next step, or waits for the request
\* that runs build_table, which can take its own.  (A request at exec_raw
\* has the adapter to call; the call itself has no condition.)
C11_NeverStuck ==
    \A r \in Requests :
        /\ pc[r] \in {"once", "wait"} =>
             \/ ENABLED (OnceBegin(r) \/ OnceGet(r))
             \/ \E b \in Requests :
                  pc[b] = "build" /\ ENABLED (BuildInsert(b) \/ BuildReturn(b))
        /\ pc[r] = "build" => ENABLED (BuildInsert(r) \/ BuildReturn(r))
        /\ pc[r] = "table" => ENABLED Lookup(r)
        /\ pc[r] = "exec" => exec[r] # NoRecipe
        /\ pc[r] = "handler" => ENABLED HandlerReturn(r)

\* C11: every request that arrived and whose handler invocation, if any,
\* returns (does not panic) ends in exactly one terminal state
\* Responded(200), Responded(400) or Responded(500): before it the request
\* is never stuck and its steps follow the path of dispatch, each taken at
\* most once, so exec_raw and the handler are called at most once and
\* nothing is retried; the response is set in the terminal state only,
\* by the last step the request took, and no step follows it.
C11_TerminalOnce ==
    /\ C11_NeverStuck
    /\ \A r \in Requests :
         /\ IsPrefix(log[r], Path) \/ IsPrefix(log[r], PathSkipping)
         /\ pc[r] \in PcAfter(log[r])
         /\ Count(log[r], "exec_raw") <= 1
         /\ Count(log[r], "handler") <= 1
         /\ hcall[r] # NoCall => Count(log[r], "exec_raw") = 1
         /\ pc[r] = "responded" <=> resp[r] # NoResponse
         /\ pc[r] = "responded" =>
              /\ Responded(r)
              /\ resp[r].status = 400 =>
                   log[r][Len(log[r])] \in {"peek", "lookup"}
              /\ resp[r].status = 500 =>
                   log[r][Len(log[r])] \in {"exec_raw", "handler"}
              /\ resp[r].status = 200 => log[r][Len(log[r])] = "handler"
         /\ pc[r] = "panicked" <=> IsPanic(hret[r])
\* a request answered 500 after its one exec_raw call failed
C11_Witness ==
    \E r \in Requests :
        /\ Responded(r)
        /\ resp[r].status = 500
        /\ Count(log[r], "exec_raw") = 1
        /\ hcall[r] = NoCall

\* what dispatch answers a request served alone: the peek, the lookup in
\* the table built from the whole inventory, exec_raw and the handler, one
\* after the other; NoResponse when the handler panics
Alone(name, body) ==
    LET pk == PeekFromSlice(body) IN
    IF IsErr(pk) THEN PeekFailed ELSE
    LET op == pk[2].params.operation
        found == TableGet(BuildFrom(inventory, 1, EmptyTable), <<name, op>>) IN
    IF ~IsSome(found) THEN Unsupported(op) ELSE
    LET d == ExecRawDecode(found[2], body) IN
    IF IsErr(d) THEN ExecResponse(d) ELSE
    LET h == CallHandler(d[2], overflowChecks) IN
    IF IsPanic(h) THEN NoResponse ELSE ExecResponse(ExecRawResult(h))

\* C12, as the spec states it: while a request h stays suspended in its
\* handler, every other request that has come to its end has come to a
\* terminal Responded state, with the response it gets when served alone.
C12_OthersRespond ==
    \A r, h \in Requests :
        (/\ h # r
         /\ pc[h] = "handler"
         /\ Finished(r))
        => /\ Responded(r)
           /\ resp[r] = Alone(req[r].name, req[r].body)

\* C13, as the spec states it: sub called with a < b has one decided
\* outcome, an error response or a 200 with the wrapped difference, and
\* never ends without a response.
C13_SubUnderflowDecided ==
    \A r \in Requests :
        (/\ Finished(r)
         /\ hcall[r].fn = "sub"
         /\ hcall[r].input.a < hcall[r].input.b)
        => /\ Responded(r)
           /\ \/ resp[r].status = 500
              \/ resp[r] =
                   Response(200, Obj(<< <<"result",
                       Num((hcall[r].input.a - hcall[r].input.b + Modulus)
                           % Modulus)>> >>))

\* C14: once the first build completed the table is frozen: no step writes
\* the cell, starts or continues a build, and every caller that gets the
\* table after the build, and every lookup, reads the contents the build
\* ended with.
C14_TableFrozen ==
    [][once.state = "complete" =>
         /\ once' = once
         /\ building = NotBuilding /\ building' = NotBuilding
         /\ builds' = builds
         /\ once.value = BuildFrom(inventory, 1, EmptyTable)
         /\ \A r \in Requests :
              /\ Contains(log[r], "get_or_init") => seen[r] = once.value
              /\ Contains(log'[r], "get_or_init") => seen'[r] = once.value
              /\ (pc[r] = "table" /\ pc'[r] = "exec")
                   => TableGet(once.value, <<req[r].name, peek[r]>>)
                        = <<"Some", exec'[r]>>
              /\ (pc[r] = "table" /\ pc'[r] = "responded")
                   => ~IsSome(TableGet(once.value, <<req[r].name, peek[r]>>))
      ]_vars

\* two requests looked their keys up in the one built table
C14_Witness ==
    /\ once.state = "complete"
    /\ builds = 1
    /\ \E r, q \in Requests :
         /\ r # q
         /\ Contains(log[r], "lookup") /\ Contains(log[q], "lookup")
         /\ exec[r] # NoRecipe

\* C15: exec_raw handed a body that decodes but names another operation
\* than the adapter's returns the operation-mismatch Err without calling
\* the handler, and the request is answered 500 with that message.
C15_MismatchIs500 ==
    \A r \in Requests :
        LET decoded == RequestFromSlice(req[r].body) IN
        (/\ pc[r] \notin {"idle", "exec"}
         /\ exec[r] # NoRecipe
         /\ IsOk(decoded)
         /\ decoded[2].params.operation # exec[r].operation)
        => /\ Responded(r)
           /\ resp[r] =
                Response(500, <<"Operation mismatch: expected '",
                                exec[r].operation, "', got '",
                                decoded[2].params.operation, "'">>)
           /\ hcall[r] = NoCall
           /\ hret[r] = NoReturn
           /\ ~Contains(log[r], "handler")

\* the adapter of ("math", "sub") was handed a well-formed add request
C15_Witness ==
    \E r \in Requests :
        /\ Responded(r)
        /\ exec[r] = Pool[2]
        /\ req[r].body = Nested("add", 3, 4)
        /\ resp[r].status = 500

\* event a stands before event b in the history of a request
Before(events, a, b) ==
    \E i, j \in DOMAIN events : i < j /\ events[i] = a /\ events[j] = b

\* C16: within one request the peek comes first, the lookup only after a
\* peek that succeeded, exec_raw only after a lookup that found the (path
\* name, peeked operation) key, and the handler only after exec_raw's typed
\* decode and operation check succeeded; the typed decode runs nowhere but
\* inside the adapter the lookup matched.
C16_PeekLookupExec ==
    \A r \in Requests :
        LET pk == PeekFromSlice(req[r].body)
            decoded == RequestFromSlice(req[r].body) IN
        /\ log[r] # <<>> => log[r][1] = "peek"
        /\ Contains(log[r], "lookup")
             => /\ Before(log[r], "peek", "lookup")
                /\ req[r].body \notin Malformed
                /\ IsOk(pk)
                /\ peek[r] = pk[2].params.operation
        /\ Contains(log[r], "exec_raw")
             => /\ Before(log[r], "lookup", "exec_raw")
                /\ exec[r] \in Range(inventory)
                /\ exec[r].name = req[r].name
                /\ exec[r].operation = peek[r]
        /\ ~Contains(log[r], "exec_raw")
             => hcall[r] = NoCall /\ resp[r].status # 500
        /\ Contains(log[r], "handler")
             => /\ Before(log[r], "exec_raw", "handler")
                /\ IsOk(decoded)
                /\ decoded[2].params.operation = exec[r].operation
                /\ hcall[r] = [fn |-> exec[r].handler, id |-> decoded[2].id,
                               input |-> decoded[2].params.input]
        /\ hcall[r] # NoCall => Contains(log[r], "exec_raw")

\* a request went through the peek, the lookup, exec_raw and the handler
C16_Witness ==
    \E r \in Requests :
        /\ log[r] = PathSkipping
        /\ Responded(r)
        /\ resp[r].status = 200

\* C17: every table entry keyed (name, op) holds the adapter generated for
\* that name and op, duplicates included, so a request that reaches
\* exec_raw through dispatch never fails the operation check: the decoded
\* operation is the adapter's, and no response is the mismatch message.
C17_NoMismatchThroughDispatch ==
    /\ \A e \in once.value \cup building.table :
         /\ e[2] \in Range(registered)
         /\ e[1] = <<e[2].name, e[2].operation>>
    /\ \A r \in Requests :
         LET decoded == RequestFromSlice(req[r].body) IN
         /\ exec[r] # NoRecipe
              => /\ exec[r].operation = peek[r]
                 /\ IsOk(decoded)
                      => decoded[2].params.operation = exec[r].operation
         /\ resp[r].status = 500
              => resp[r].body[1] # "Operation mismatch: expected '"

\* with ("math", "add") registered twice, a request came back from the
\* adapter the lookup gave it
C17_Witness ==
    /\ \E i, j \in DOMAIN registered :
         i # j /\ RecipeKey(registered[i]) = RecipeKey(registered[j])
    /\ \E r \in Requests :
         /\ Responded(r)
         /\ Contains(log[r], "handler")
         /\ exec[r].operation = "add"

\* C18: only a request that passed the peek starts the lazy build; the step
\* that rejects a malformed envelope with 400 changes nothing of the
\* registry (an unbuilt cell stays unbuilt), calls no handler and touches no
\* other request, and every finished request holds the response it gets
\* when served alone.
C18_FailedPeekFrame ==
    [][/\ \A r \in Requests :
            /\ (pc[r] = "idle" /\ pc'[r] = "responded")
                 => /\ resp'[r] = PeekFailed
                    /\ log'[r] = <<"peek">>
                    /\ UNCHANGED << once, building, builds, seen, exec,
                                    hcall, hret, peek >>
                    /\ \A q \in Requests \ {r} :
                         /\ pc'[q] = pc[q] /\ resp'[q] = resp[q]
                         /\ log'[q] = log[q]
            /\ (Contains(log'[r], "build_table") \/ building'.by = r)
                 => /\ IsOk(PeekFromSlice(req'[r].body))
                    /\ Before(log'[r], "peek", "build_table")
            /\ resp'[r] = PeekFailed
                 => /\ hcall'[r] = NoCall /\ exec'[r] = NoRecipe
                    /\ seen'[r] = EmptyTable
            /\ Finished(r)'
                 => resp'[r] = Alone(req'[r].name, req'[r].body)
       /\ once'.state # "uninit"
            => \E r \in Requests :
                  /\ Contains(log'[r], "build_table")
                  /\ IsOk(PeekFromSlice(req'[r].body))
      ]_vars

\* a malformed envelope was answered 400 with the cell still unbuilt
C18_Witness ==
    \E r \in Requests :
        /\ resp[r] = PeekFailed
        /\ req[r].body = BadBytes
        /\ once.state = "uninit"
        /\ builds = 0

====
